---- MODULE Spec2Model ----
(***************************************************************************)
(* Model of src/main.py: the /execute endpoint of the TechNova function    *)
(* router.  A query string is stripped, the five rules of PATTERNS are     *)
(* tried in declaration order with regular-expression search semantics,    *)
(* the captures of the first matching rule are coerced and JSON-encoded,   *)
(* and a relaxed ticket pattern is the fallback.                           *)
(*                                                                         *)
(* Texts are TLA+ strings; a character is a string of length one.  The     *)
(* regular expressions of the source are written as sequences of items     *)
(* and run by a backtracking matcher with Python's priorities (greedy      *)
(* and lazy quantifiers, leftmost match).                                  *)
(***************************************************************************)
EXTENDS Integers, Sequences, FiniteSets, TLC

\* ------------------------------------------------------------------------
\* Bounds of the model
\* ------------------------------------------------------------------------

\* Longest query, counted in fragments of Fragments.
MaxFrags == 2

\* Number of requests in flight in the concurrent specification.
NumRequests == 2

\* CPython's limit on the number of digits int() converts
\* (sys.int_info.default_max_str_digits, 4300), scaled down.  The scaled
\* value stays above the four digits of the year capture, as 4300 does.
MaxStrDigits == 5

\* ------------------------------------------------------------------------
\* Characters
\* ------------------------------------------------------------------------

CharAt(s, i) == SubSeq(s, i, i)

Uppers == "ABCDEFGHIJKLMNOPQRSTUVWXYZ"
Lowers == "abcdefghijklmnopqrstuvwxyz"
Digits == "0123456789"

UpperSet == {CharAt(Uppers, i) : i \in 1..26}
LowerSet == {CharAt(Lowers, i) : i \in 1..26}
DigitSet == {CharAt(Digits, i) : i \in 1..10}
SpaceSet == {" ", "\t", "\n", "\r", "\f"}

FoldTable ==
  [c \in UpperSet |->
     LET i == CHOOSE j \in 1..26 : CharAt(Uppers, j) = c IN CharAt(Lowers, i)]

\* re.IGNORECASE: characters are compared after case folding.
Fold(c) == IF c \in UpperSet THEN FoldTable[c] ELSE c

\* \w of the re module (the characters on either side of \b).
WordSet == UpperSet \cup LowerSet \cup DigitSet \cup {"_"}
IsWordChar(c) == c \in WordSet

\* Membership of a character in a character class of the patterns.
InClass(cls, c) ==
  CASE cls = "\\d"  -> c \in DigitSet
    [] cls = "0-9"  -> c \in DigitSet
    [] cls = "\\s"  -> c \in SpaceSet
    [] cls = "."    -> c # "\n"
    [] OTHER        -> FALSE

\* ------------------------------------------------------------------------
\* Regular expressions: items
\* ------------------------------------------------------------------------

Item(t, s, cls, min, max, greedy, alts) ==
  [t |-> t, s |-> s, cls |-> cls, min |-> min, max |-> max,
   greedy |-> greedy, alts |-> alts]

\* literal text
Lit(s) == Item("lit", s, "", 0, 0, TRUE, <<>>)
\* \b
WB == Item("wb", "", "", 0, 0, TRUE, <<>>)
\* $
EOS == Item("eos", "", "", 0, 0, TRUE, <<>>)
\* ( and ) of a capture group
Open == Item("open", "", "", 0, 0, TRUE, <<>>)
Close == Item("close", "", "", 0, 0, TRUE, <<>>)
\* cls{min,max}; max = 0 stands for no upper limit
Rep(cls, min, max) == Item("rep", "", cls, min, max, TRUE, <<>>)
\* cls+
Plus(cls) == Item("rep", "", cls, 1, 0, TRUE, <<>>)
\* cls+?
PlusLazy(cls) == Item("rep", "", cls, 1, 0, FALSE, <<>>)
\* (?:a|b)?
OptAlt(alts) == Item("optalt", "", "", 0, 0, TRUE, alts)

\* ------------------------------------------------------------------------
\* Regular expressions: the matcher
\* ------------------------------------------------------------------------

NoMatch == [ok |-> FALSE, start |-> 0, end |-> 0, spans |-> <<>>]

\* the literal lit stands in s at position pos, case-insensitively
LitAt(s, pos, lit) ==
  /\ pos + Len(lit) - 1 <= Len(s)
  /\ \A i \in 1..Len(lit) : Fold(CharAt(s, pos + i - 1)) = Fold(CharAt(lit, i))

\* \b at pos: exactly one of the characters around pos is a word character
WordBoundary(s, pos) ==
  LET before == pos > 1 /\ IsWordChar(CharAt(s, pos - 1))
      after  == pos <= Len(s) /\ IsWordChar(CharAt(s, pos))
  IN  before # after

\* $ without re.MULTILINE: the end, or before a newline that ends the text
AtEnd(s, pos) ==
  \/ pos = Len(s) + 1
  \/ pos = Len(s) /\ CharAt(s, pos) = "\n"

\* number of consecutive characters of cls from pos, at most max (0: no limit)
RunLen(cls, s, pos, max) ==
  LET rest == Len(s) + 1 - pos
      cap  == IF max = 0 \/ max > rest THEN rest ELSE max
  IN  CHOOSE n \in 0..cap :
        /\ n = cap \/ ~InClass(cls, CharAt(s, pos + n))
        /\ \A i \in 0..(n - 1) : InClass(cls, CharAt(s, pos + i))

SetLast(spans, pos) ==
  [spans EXCEPT ![Len(spans)] = <<spans[Len(spans)][1], pos>>]

RECURSIVE MatchHere(_, _, _, _, _)
RECURSIVE TryCounts(_, _, _, _, _, _)
RECURSIVE TryAlts(_, _, _, _, _, _)

\* Match items k.. of re against s from pos; spans holds the groups so far.
MatchHere(re, k, s, pos, spans) ==
  IF k > Len(re) THEN [ok |-> TRUE, start |-> 0, end |-> pos, spans |-> spans]
  ELSE LET it == re[k] IN
    CASE it.t = "lit" ->
           IF LitAt(s, pos, it.s)
           THEN MatchHere(re, k + 1, s, pos + Len(it.s), spans) ELSE NoMatch
      [] it.t = "wb" ->
           IF WordBoundary(s, pos)
           THEN MatchHere(re, k + 1, s, pos, spans) ELSE NoMatch
      [] it.t = "eos" ->
           IF AtEnd(s, pos)
           THEN MatchHere(re, k + 1, s, pos, spans) ELSE NoMatch
      [] it.t = "open" ->
           MatchHere(re, k + 1, s, pos, Append(spans, <<pos, pos>>))
      [] it.t = "close" ->
           MatchHere(re, k + 1, s, pos, SetLast(spans, pos))
      [] it.t = "rep" ->
           TryCounts(re, k, s, pos, spans, RunLen(it.cls, s, pos, it.max))
      [] it.t = "optalt" ->
           TryAlts(re, k, s, pos, spans, 1)

\* The repetition re[k] can take min..run characters.  A greedy one tries
\* the counts from run downwards and a lazy one from min upwards, and the
\* first count with which the rest of the pattern matches is kept.
TryCounts(re, k, s, pos, spans, run) ==
  LET tries == {<<n, MatchHere(re, k + 1, s, pos + n, spans)>> : n \in re[k].min..run}
      good  == {t \in tries : t[2].ok}
  IN  IF good = {} THEN NoMatch
      ELSE IF re[k].greedy
           THEN (CHOOSE t \in good : \A u \in good : u[1] <= t[1])[2]
           ELSE (CHOOSE t \in good : \A u \in good : t[1] <= u[1])[2]

\* The alternatives of re[k] in order, then the empty match.
TryAlts(re, k, s, pos, spans, a) ==
  IF a > Len(re[k].alts) THEN MatchHere(re, k + 1, s, pos, spans)
  ELSE LET r == IF LitAt(s, pos, re[k].alts[a])
                THEN MatchHere(re, k + 1, s, pos + Len(re[k].alts[a]), spans)
                ELSE NoMatch
       IN  IF r.ok THEN r ELSE TryAlts(re, k, s, pos, spans, a + 1)

\* pattern.search(text): the match at the leftmost position that has one
Search(re, s) ==
  LET tries == {<<st, MatchHere(re, 1, s, st, <<>>)>> : st \in 1..(Len(s) + 1)}
      good  == {t \in tries : t[2].ok}
  IN  IF good = {} THEN NoMatch
      ELSE LET t == CHOOSE x \in good : \A y \in good : x[1] <= y[1]
           IN  [t[2] EXCEPT !.start = t[1]]

\* m.groups()
Groups(s, m) == [g \in 1..Len(m.spans) |-> SubSeq(s, m.spans[g][1], m.spans[g][2] - 1)]

\* number of capture groups of a pattern
NumGroups(re) == Cardinality({k \in 1..Len(re) : re[k].t = "open"})

\* ------------------------------------------------------------------------
\* The rule table
\* ------------------------------------------------------------------------

\* \bstatus of ticket\s+(\d+)\b
TicketPattern ==
  <<WB, Lit("status of ticket"), Plus("\\s"), Open, Plus("\\d"), Close, WB>>

\* \bschedule a meeting on\s+([0-9]{4}-[0-9]{2}-[0-9]{2})\s+at\s+
\* ([0-9]{1,2}:[0-9]{2})\s+in\s+(.+)$
MeetingPattern ==
  <<WB, Lit("schedule a meeting on"), Plus("\\s"),
    Open, Rep("0-9", 4, 4), Lit("-"), Rep("0-9", 2, 2), Lit("-"),
          Rep("0-9", 2, 2), Close,
    Plus("\\s"), Lit("at"), Plus("\\s"),
    Open, Rep("0-9", 1, 2), Lit(":"), Rep("0-9", 2, 2), Close,
    Plus("\\s"), Lit("in"), Plus("\\s"),
    Open, Plus("."), Close, EOS>>

\* \bexpense balance for employee\s+(\d+)\b
ExpensePattern ==
  <<WB, Lit("expense balance for employee"), Plus("\\s"),
    Open, Plus("\\d"), Close, WB>>

\* \bperformance bonus for employee\s+(\d+)\s+for\s+(\d{4})\b
BonusPattern ==
  <<WB, Lit("performance bonus for employee"), Plus("\\s"),
    Open, Plus("\\d"), Close, Plus("\\s"), Lit("for"), Plus("\\s"),
    Open, Rep("\\d", 4, 4), Close, WB>>

\* the optional article written as a capturing group: (an |the )?
IssuePatternCapturing ==
  <<WB, Lit("report "), Open, OptAlt(<<"an ", "the ">>), Close,
    Lit("office issue"),
    Plus("\\s"), Open, Plus("\\d"), Close, Plus("\\s"), Lit("for the"),
    Plus("\\s"), Open, PlusLazy("."), Close, Plus("\\s"),
    Lit("department"), WB>>

\* the department capture written greedy: (.+)
IssuePatternGreedy ==
  <<WB, Lit("report "), OptAlt(<<"an ", "the ">>), Lit("office issue"),
    Plus("\\s"), Open, Plus("\\d"), Close, Plus("\\s"), Lit("for the"),
    Plus("\\s"), Open, Plus("."), Close, Plus("\\s"),
    Lit("department"), WB>>

\* \breport (?:an |the )?office issue\s+(\d+)\s+for the\s+(.+?)\s+department\b
IssuePattern ==
  <<WB, Lit("report "), OptAlt(<<"an ", "the ">>), Lit("office issue"),
    Plus("\\s"), Open, Plus("\\d"), Close, Plus("\\s"), Lit("for the"),
    Plus("\\s"), Open, PlusLazy("."), Close, Plus("\\s"),
    Lit("department"), WB>>

\* ticket\s+(\d+)
FallbackPattern == <<Lit("ticket"), Plus("\\s"), Open, Plus("\\d"), Close>>

Rule(name, pattern, keys, types) ==
  [name |-> name, pattern |-> pattern, arg_keys |-> keys, arg_types |-> types]

PatternTable ==
  << Rule("get_ticket_status", TicketPattern, <<"ticket_id">>, <<"int">>),
     Rule("schedule_meeting", MeetingPattern,
          <<"date", "time", "meeting_room">>, <<"str", "str", "str">>),
     Rule("get_expense_balance", ExpensePattern, <<"employee_id">>, <<"int">>),
     Rule("calculate_performance_bonus", BonusPattern,
          <<"employee_id", "current_year">>, <<"int", "int">>),
     Rule("report_office_issue", IssuePattern,
          <<"issue_code", "department">>, <<"int", "str">>) >>

\* ------------------------------------------------------------------------
\* Coercion and encoding
\* ------------------------------------------------------------------------

DigitVal(c) == (CHOOSE i \in 1..10 : CharAt(Digits, i) = c) - 1

RECURSIVE Horner(_, _, _)
Horner(val, i, acc) ==
  IF i > Len(val) THEN acc
  ELSE Horner(val, i + 1, acc * 10 + DigitVal(CharAt(val, i)))

RECURSIVE HornerOctal(_, _, _)
HornerOctal(val, i, acc) ==
  IF i > Len(val) THEN acc
  ELSE HornerOctal(val, i + 1, acc * 8 + DigitVal(CharAt(val, i)))

\* int(val, 0) of C-like parsers: a leading zero announces an octal number
IntParseBase0(val) ==
  IF \/ Len(val) = 0
     \/ \E i \in 1..Len(val) : CharAt(val, i) \notin DigitSet
     \/ Len(val) > MaxStrDigits
  THEN [ok |-> FALSE, val |-> 0]
  ELSE IF Len(val) > 1 /\ CharAt(val, 1) = "0"
       THEN [ok |-> TRUE, val |-> HornerOctal(val, 1, 0)]
       ELSE [ok |-> TRUE, val |-> Horner(val, 1, 0)]

\* int(val): ValueError for text that is not a digit sequence and for a
\* digit sequence longer than the interpreter's conversion limit (leading
\* zeros count towards the limit).
IntParse(val) ==
  IF \/ Len(val) = 0
     \/ \E i \in 1..Len(val) : CharAt(val, i) \notin DigitSet
     \/ Len(val) > MaxStrDigits
  THEN [ok |-> FALSE, val |-> 0]
  ELSE [ok |-> TRUE, val |-> Horner(val, 1, 0)]

RECURSIVE LStrip(_)
LStrip(s) ==
  IF Len(s) > 0 /\ CharAt(s, 1) \in SpaceSet
  THEN LStrip(SubSeq(s, 2, Len(s))) ELSE s

RECURSIVE RStrip(_)
RStrip(s) ==
  IF Len(s) > 0 /\ CharAt(s, Len(s)) \in SpaceSet
  THEN RStrip(SubSeq(s, 1, Len(s) - 1)) ELSE s

\* str.strip()
Strip(s) == RStrip(LStrip(s))

RECURSIVE IntToStr(_)
\* str of a non-negative integer, as json.dumps writes it
IntToStr(n) ==
  IF n < 10 THEN CharAt(Digits, n + 1)
  ELSE IntToStr(n \div 10) \o CharAt(Digits, (n % 10) + 1)

\* the escape json.dumps(ensure_ascii=False) writes for one character
JsonChar(c) ==
  CASE c = "\"" -> "\\\""
    [] c = "\\" -> "\\\\"
    [] c = "\n" -> "\\n"
    [] c = "\r" -> "\\r"
    [] c = "\t" -> "\\t"
    [] c = "\f" -> "\\f"
    [] OTHER    -> c

RECURSIVE JsonEscape(_)
\* the escapes of the characters of s, one after the other
JsonEscape(s) ==
  IF Len(s) = 0 THEN ""
  ELSE IF Len(s) = 1 THEN JsonChar(s)
  ELSE LET h == Len(s) \div 2 IN
       JsonEscape(SubSeq(s, 1, h)) \o JsonEscape(SubSeq(s, h + 1, Len(s)))

JsonString(s) == "\"" \o JsonEscape(s) \o "\""

JsonValue(e) == IF e.typ = "int" THEN IntToStr(e.val) ELSE JsonString(e.val)

RECURSIVE JsonItems(_, _)
JsonItems(ordered, i) ==
  IF i > Len(ordered) THEN ""
  ELSE (IF i > 1 THEN ", " ELSE "")
       \o JsonString(ordered[i].key) \o ": " \o JsonValue(ordered[i])
       \o JsonItems(ordered, i + 1)

Reverse(seq) == [i \in 1..Len(seq) |-> seq[Len(seq) + 1 - i]]

\* an encoder that does not keep the insertion order
JsonDumpsReversed(ordered) == "{" \o JsonItems(Reverse(ordered), 1) \o "}"

\* json.dumps(ordered_args, ensure_ascii=False)
JsonDumps(ordered) == "{" \o JsonItems(ordered, 1) \o "}"

\* ------------------------------------------------------------------------
\* Outcomes of a request
\* ------------------------------------------------------------------------

\* build_response: 200 with the name and the JSON-encoded arguments
build_response(func_name, ordered_args) ==
  [status |-> 200, name |-> func_name, arguments |-> JsonDumps(ordered_args),
   detail |-> ""]

\* raise HTTPException(status_code, detail)
HTTPException(status_code, detail) ==
  [status |-> status_code, name |-> "", arguments |-> "", detail |-> detail]

\* an exception no handler catches: the server answers 500
UncaughtError ==
  [status |-> 500, name |-> "", arguments |-> "",
   detail |-> "Internal Server Error"]

Pending == [status |-> 0, name |-> "", arguments |-> "", detail |-> ""]

MissingDetail == "Missing query parameter q"
MismatchDetail == "Parsing error: group count mismatch"
NoMapDetail == "Could not map query to any pre-defined function. Make sure the question follows one of the templated formats."

Min(a, b) == IF a < b THEN a ELSE b

RECURSIVE Coerce(_, _, _, _, _)
\* the loop over zip(arg_keys, arg_types, groups) from its i-th triple on:
\* int(val) for an int parameter, val.strip() for a string one; the first
\* ValueError ends the loop with the key it was raised for
Coerce(keys, types, groups, i, ordered) ==
  IF i > Min(Len(keys), Min(Len(types), Len(groups)))
  THEN [ok |-> TRUE, key |-> "", ordered |-> ordered]
  ELSE IF types[i] = "int"
       THEN LET n == IntParse(groups[i]) IN
            IF n.ok
            THEN Coerce(keys, types, groups, i + 1,
                   Append(ordered, [key |-> keys[i], typ |-> "int", val |-> n.val]))
            ELSE [ok |-> FALSE, key |-> keys[i], ordered |-> ordered]
       ELSE Coerce(keys, types, groups, i + 1,
              Append(ordered, [key |-> keys[i], typ |-> "str",
                               val |-> Strip(groups[i])]))

\* ------------------------------------------------------------------------
\* Queries
\* ------------------------------------------------------------------------

\* Optional[str]
None == [present |-> FALSE, val |-> ""]
Some(s) == [present |-> TRUE, val |-> s]

RECURSIVE Repeat(_, _)
Repeat(c, n) == IF n = 0 THEN "" ELSE c \o Repeat(c, n - 1)

Fragments ==
  { "What is the status of ticket 83742",
    " Schedule a meeting on 2025-02-15 at 14:00 in Room A.",
    " Show my EXPENSE Balance for employee 00056",
    " Calculate performance bonus for employee 10056 for 2025",
    " Report office issue 45321 for the",
    " IT department of the Facilities department.",
    "   department",
    "Ticket 00999",
    Repeat("0", MaxStrDigits - 3) \o "7",
    " ",
    "\t",
    "\nannex",
    "?",
    "hello world" }

RECURSIVE Cat(_, _)
Cat(fs, i) == IF i > Len(fs) THEN "" ELSE fs[i] \o Cat(fs, i + 1)

Queries ==
  {None} \cup
  { Some(Cat(fs, 1)) : fs \in UNION { [1..n -> Fragments] : n \in 0..MaxFrags } }

\* the queries of the concurrent specification
ConcQueries ==
  { None, Some(" "),
    Some("What is the status of ticket 83742?"),
    Some("Show my expense balance for employee 10056 and the status of ticket 7"),
    Some("Report the office issue 45321 for the IT department."),
    Some("Ticket " \o Repeat("9", MaxStrDigits + 1)) }

\* ------------------------------------------------------------------------
\* State
\* ------------------------------------------------------------------------

VARIABLES
  PATTERNS,  \* the rule table, a module-level list
  q,         \* q[r]: the query parameter of request r
  pc,        \* pc[r]: where the handler of request r stands
  text,      \* text[r]: q.strip()
  p,         \* p[r]: index in PATTERNS of the rule the loop is at
  m,         \* m[r]: the last match object
  groups,    \* groups[r]: m.groups()
  ordered,   \* ordered[r]: the OrderedDict under construction
  fallback_ticket,  \* fallback_ticket[r]: the match of the fallback pattern
  outcome    \* outcome[r]: the response or error the handler ended with

vars == <<PATTERNS, q, pc, text, p, m, groups, ordered, fallback_ticket, outcome>>

Requests == DOMAIN pc

InitLocals(R) ==
  /\ PATTERNS = PatternTable
  /\ pc = [r \in R |-> "start"]
  /\ text = [r \in R |-> ""]
  /\ p = [r \in R |-> 0]
  /\ m = [r \in R |-> NoMatch]
  /\ groups = [r \in R |-> <<>>]
  /\ ordered = [r \in R |-> <<>>]
  /\ fallback_ticket = [r \in R |-> NoMatch]
  /\ outcome = [r \in R |-> Pending]

\* one request, any query
Init ==
  /\ q \in [{1} -> Queries]
  /\ InitLocals({1})

\* NumRequests requests in flight together
InitConc ==
  /\ q \in [1..NumRequests -> ConcQueries]
  /\ InitLocals(1..NumRequests)

\* ------------------------------------------------------------------------
\* The handler, execute
\* ------------------------------------------------------------------------

\* text kept in one place for all requests
CheckQueryShared(r) ==
  /\ pc[r] = "start"
  /\ IF ~q[r].present \/ q[r].val = ""
     THEN /\ outcome' = [outcome EXCEPT ![r] = HTTPException(400, MissingDetail)]
          /\ pc' = [pc EXCEPT ![r] = "done"]
          /\ UNCHANGED <<text, p>>
     ELSE /\ text' = [x \in Requests |-> Strip(q[r].val)]
          /\ p' = [p EXCEPT ![r] = 1]
          /\ pc' = [pc EXCEPT ![r] = IF Len(PATTERNS) = 0 THEN "fallback" ELSE "loop"]
          /\ UNCHANGED outcome
  /\ UNCHANGED <<PATTERNS, q, m, groups, ordered, fallback_ticket>>

\* if not q: raise 400; text = q.strip()
CheckQuery(r) ==
  /\ pc[r] = "start"
  /\ IF ~q[r].present \/ q[r].val = ""
     THEN /\ outcome' = [outcome EXCEPT ![r] = HTTPException(400, MissingDetail)]
          /\ pc' = [pc EXCEPT ![r] = "done"]
          /\ UNCHANGED <<text, p>>
     ELSE /\ text' = [text EXCEPT ![r] = Strip(q[r].val)]
          /\ p' = [p EXCEPT ![r] = 1]
          /\ pc' = [pc EXCEPT ![r] = IF Len(PATTERNS) = 0 THEN "fallback" ELSE "loop"]
          /\ UNCHANGED outcome
  /\ UNCHANGED <<PATTERNS, q, m, groups, ordered, fallback_ticket>>

\* the outcome of the loop body once PATTERNS[p] has matched
MatchedOutcome(rule, gs) ==
  IF Len(gs) # Len(rule.arg_keys)
  THEN HTTPException(500, MismatchDetail)
  ELSE LET c == Coerce(rule.arg_keys, rule.arg_types, gs, 1, <<>>) IN
       IF c.ok THEN build_response(rule.name, c.ordered)
       ELSE HTTPException(400, "Invalid integer for " \o c.key)

\* the loop without its return: a match is kept only at the last rule
TryPatternNoStop(r) ==
  /\ pc[r] = "loop"
  /\ LET rule == PATTERNS[p[r]]
         mm   == Search(rule.pattern, text[r])
         gs   == Groups(text[r], mm)
     IN  /\ m' = [m EXCEPT ![r] = mm]
         /\ IF mm.ok /\ p[r] = Len(PATTERNS)
            THEN /\ groups' = [groups EXCEPT ![r] = gs]
                 /\ ordered' = [ordered EXCEPT ![r] =
                      IF Len(gs) # Len(rule.arg_keys) THEN <<>>
                      ELSE Coerce(rule.arg_keys, rule.arg_types, gs, 1, <<>>).ordered]
                 /\ outcome' = [outcome EXCEPT ![r] = MatchedOutcome(rule, gs)]
                 /\ pc' = [pc EXCEPT ![r] = "done"]
                 /\ UNCHANGED p
            ELSE /\ p' = [p EXCEPT ![r] = p[r] + 1]
                 /\ pc' = [pc EXCEPT ![r] =
                      IF p[r] = Len(PATTERNS) THEN "fallback" ELSE "loop"]
                 /\ UNCHANGED <<groups, ordered, outcome>>
  /\ UNCHANGED <<PATTERNS, q, text, fallback_ticket>>

\* one iteration of: for p in PATTERNS
TryPattern(r) ==
  /\ pc[r] = "loop"
  /\ LET rule == PATTERNS[p[r]]
         mm   == Search(rule.pattern, text[r])
         gs   == Groups(text[r], mm)
     IN  /\ m' = [m EXCEPT ![r] = mm]
         /\ IF mm.ok
            THEN /\ groups' = [groups EXCEPT ![r] = gs]
                 /\ ordered' = [ordered EXCEPT ![r] =
                      IF Len(gs) # Len(rule.arg_keys) THEN <<>>
                      ELSE Coerce(rule.arg_keys, rule.arg_types, gs, 1, <<>>).ordered]
                 /\ outcome' = [outcome EXCEPT ![r] = MatchedOutcome(rule, gs)]
                 /\ pc' = [pc EXCEPT ![r] = "done"]
                 /\ UNCHANGED p
            ELSE /\ p' = [p EXCEPT ![r] = p[r] + 1]
                 /\ pc' = [pc EXCEPT ![r] =
                      IF p[r] = Len(PATTERNS) THEN "fallback" ELSE "loop"]
                 /\ UNCHANGED <<groups, ordered, outcome>>
  /\ UNCHANGED <<PATTERNS, q, text, fallback_ticket>>

\* a fallback that answers "could not map" when int() fails
FallbackOutcomeSwallow(mm, s) ==
  IF mm.ok /\ IntParse(Groups(s, mm)[1]).ok
  THEN build_response("get_ticket_status",
         <<[key |-> "ticket_id", typ |-> "int",
            val |-> IntParse(Groups(s, mm)[1]).val]>>)
  ELSE HTTPException(400, NoMapDetail)

\* the outcome of the fallback: int() outside any try
FallbackOutcome(mm, s) ==
  IF mm.ok
  THEN LET n == IntParse(Groups(s, mm)[1]) IN
       IF n.ok
       THEN build_response("get_ticket_status",
              <<[key |-> "ticket_id", typ |-> "int", val |-> n.val]>>)
       ELSE UncaughtError
  ELSE HTTPException(400, NoMapDetail)

\* a fallback that is tried before the loop has ended
FallbackEarly(r) ==
  /\ pc[r] \in {"loop", "fallback"}
  /\ LET mm == Search(FallbackPattern, text[r]) IN
       /\ fallback_ticket' = [fallback_ticket EXCEPT ![r] = mm]
       /\ outcome' = [outcome EXCEPT ![r] = FallbackOutcome(mm, text[r])]
       /\ pc' = [pc EXCEPT ![r] = "done"]
  /\ UNCHANGED <<PATTERNS, q, text, p, m, groups, ordered>>

\* after the loop: the relaxed ticket pattern, then the 400
Fallback(r) ==
  /\ pc[r] = "fallback"
  /\ LET mm == Search(FallbackPattern, text[r]) IN
       /\ fallback_ticket' = [fallback_ticket EXCEPT ![r] = mm]
       /\ outcome' = [outcome EXCEPT ![r] = FallbackOutcome(mm, text[r])]
       /\ pc' = [pc EXCEPT ![r] = "done"]
  /\ UNCHANGED <<PATTERNS, q, text, p, m, groups, ordered>>

RECURSIVE RouteFrom(_, _, _)
\* the loop and the fallback as one function of the stripped text
RouteFrom(table, s, i) ==
  IF i > Len(table) THEN FallbackOutcome(Search(FallbackPattern, s), s)
  ELSE LET mm == Search(table[i].pattern, s) IN
       IF mm.ok THEN MatchedOutcome(table[i], Groups(s, mm))
       ELSE RouteFrom(table, s, i + 1)

\* execute as a function of q and the rule table: a request handled alone
Execute(table, qq) ==
  IF ~qq.present \/ qq.val = "" THEN HTTPException(400, MissingDetail)
  ELSE RouteFrom(table, Strip(qq.val), 1)

Next ==
  \/ \E r \in Requests : CheckQuery(r)
  \/ \E r \in Requests : TryPattern(r)
  \/ \E r \in Requests : Fallback(r)

Spec == Init /\ [][Next]_vars

SpecConc == InitConc /\ [][Next]_vars

\* ------------------------------------------------------------------------
\* Vocabulary of the properties
\* ------------------------------------------------------------------------

Done(r) == pc[r] = "done"

IsBlank(s) == \A i \in 1..Len(s) : CharAt(s, i) \in SpaceSet

\* s without the whitespace around it, by the positions of its first and
\* last character that is not whitespace
Trimmed(s) ==
  IF IsBlank(s) THEN ""
  ELSE LET ns == {i \in 1..Len(s) : CharAt(s, i) \notin SpaceSet}
           a  == CHOOSE x \in ns : \A y \in ns : x <= y
           b  == CHOOSE x \in ns : \A y \in ns : y <= x
       IN  SubSeq(s, a, b)

NonEmptyAfterTrim(r) == q[r].present /\ ~IsBlank(q[r].val)

SameFold(a, b) ==
  /\ Len(a) = Len(b)
  /\ \A i \in 1..Len(a) : Fold(CharAt(a, i)) = Fold(CharAt(b, i))

\* at pos: one or more whitespace characters and then lit, in any case;
\* the set of positions right after lit
AfterSpacesAndWord(s, pos, lit) ==
  { e \in (pos + 1 + Len(lit))..(Len(s) + 1) :
      /\ e - Len(lit) > pos
      /\ IsBlank(SubSeq(s, pos, e - Len(lit) - 1))
      /\ SameFold(SubSeq(s, e - Len(lit), e - 1), lit) }

\* s contains "ticket", whitespace and a digit, in any case
HasTicketDigits(s) ==
  \E i \in 1..Len(s) :
    /\ i + 5 <= Len(s)
    /\ SameFold(SubSeq(s, i, i + 5), "ticket")
    /\ \E j \in (i + 7)..Len(s) :
         /\ IsBlank(SubSeq(s, i + 6, j - 1))
         /\ CharAt(s, j) \in DigitSet

MatchingRules(s) == {i \in 1..Len(PATTERNS) : Search(PATTERNS[i].pattern, s).ok}

FirstRule(s) ==
  CHOOSE i \in MatchingRules(s) : \A j \in MatchingRules(s) : i <= j

RuleNames ==
  <<"get_ticket_status", "schedule_meeting", "get_expense_balance",
    "calculate_performance_bonus", "report_office_issue">>

\* positions at which t occurs in s
Occ(s, t) == {i \in 1..(Len(s) - Len(t) + 1) : SubSeq(s, i, i + Len(t) - 1) = t}

KeyTag(k) == "\"" \o k \o "\": "

\* args is a JSON object text whose keys are exactly keys, in that order
KeysInOrder(args, keys) ==
  /\ Len(args) >= 2
  /\ CharAt(args, 1) = "{"
  /\ CharAt(args, Len(args)) = "}"
  /\ Cardinality(Occ(args, "\": ")) = Len(keys)
  /\ \A j \in 1..Len(keys) : Cardinality(Occ(args, KeyTag(keys[j]))) = 1
  /\ \A j \in 1..Len(keys) :
       LET at == CHOOSE i \in Occ(args, KeyTag(keys[j])) : TRUE IN
       IF j = 1 THEN at = 2
       ELSE /\ at > (CHOOSE i \in Occ(args, KeyTag(keys[j - 1])) : TRUE)
            /\ SubSeq(args, at - 2, at - 1) = ", "

\* args gives key the value written txt
HasArg(args, key, txt) ==
  \E i \in Occ(args, KeyTag(key) \o txt) :
    CharAt(args, i + Len(KeyTag(key)) + Len(txt)) \in {",", "}"}

\* the decimal numeral of the integer a digit sequence denotes
Canon(g) ==
  LET nz == {i \in 1..Len(g) : CharAt(g, i) # "0"} IN
  IF nz = {} THEN "0"
  ELSE SubSeq(g, CHOOSE x \in nz : \A y \in nz : x <= y, Len(g))

\* v is cap without the whitespace at its two ends, nothing else changed
StrippedOf(v, cap) ==
  IF v = "" THEN IsBlank(cap)
  ELSE /\ CharAt(v, 1) \notin SpaceSet
       /\ CharAt(v, Len(v)) \notin SpaceSet
       /\ \E i \in 1..Len(cap) :
            /\ i + Len(v) - 1 <= Len(cap)
            /\ SubSeq(cap, i, i + Len(v) - 1) = v
            /\ IsBlank(SubSeq(cap, 1, i - 1))
            /\ IsBlank(SubSeq(cap, i + Len(v), Len(cap)))

\* the rule whose match ended request r in the loop
MatchedRule(r) == PATTERNS[p[r]]

\* the integer captures of a match that int() refuses
RefusedInts(rule, gs) ==
  {k \in 1..Len(gs) : rule.arg_types[k] = "int" /\ Len(gs[k]) > MaxStrDigits}

\* ------------------------------------------------------------------------
\* Properties
\* ------------------------------------------------------------------------

\* C1: for a query that is not empty after trimming, the five rules are
\* tried in declaration order and the lowest-order rule that matches the
\* trimmed text decides the outcome (its name and captures, or its error);
\* no rule after it and not the fallback is ever consulted.
C1_FirstMatchDecides ==
  /\ [i \in 1..Len(PATTERNS) |-> PATTERNS[i].name] = RuleNames
  /\ \A r \in Requests :
       LET s == Trimmed(q[r].val) IN
       (NonEmptyAfterTrim(r) /\ MatchingRules(s) # {}) =>
         LET i == FirstRule(s) IN
         /\ p[r] <= i
         /\ pc[r] # "fallback"
         /\ fallback_ticket[r] = NoMatch
         /\ Done(r) =>
              /\ p[r] = i
              /\ m[r] = Search(PATTERNS[i].pattern, s)
              /\ outcome[r] = MatchedOutcome(PATTERNS[i], Groups(s, m[r]))

\* C1 witness: a finished request whose text two rules match, answered
\* by the first of them.
C1_Witness ==
  \E r \in Requests :
    /\ Done(r) /\ NonEmptyAfterTrim(r)
    /\ Cardinality(MatchingRules(Trimmed(q[r].val))) >= 2
    /\ outcome[r].status = 200
    /\ outcome[r].name = PATTERNS[FirstRule(Trimmed(q[r].val))].name

\* C2 as stated: for any query that matches pattern i, the response has
\* rule i's name and exactly rule i's parameter names as keys, in order.
C2_AnyMatchingRule ==
  \A r \in Requests :
    (Done(r) /\ NonEmptyAfterTrim(r)) =>
      \A i \in MatchingRules(Trimmed(q[r].val)) :
        /\ outcome[r].status = 200
        /\ outcome[r].name = PATTERNS[i].name
        /\ KeysInOrder(outcome[r].arguments, PATTERNS[i].arg_keys)

\* C2 amended: for any query whose lowest-order matching pattern is i and
\* whose integer captures int() accepts, the response has rule i's name and
\* exactly rule i's parameter names as keys, in the declared order.
C2_FirstMatchingRule ==
  \A r \in Requests :
    (Done(r) /\ NonEmptyAfterTrim(r) /\ MatchingRules(Trimmed(q[r].val)) # {}) =>
      LET s    == Trimmed(q[r].val)
          rule == PATTERNS[FirstRule(s)]
      IN  RefusedInts(rule, Groups(s, Search(rule.pattern, s))) = {} =>
            /\ outcome[r].status = 200
            /\ outcome[r].name = rule.name
            /\ KeysInOrder(outcome[r].arguments, rule.arg_keys)

\* C2 witness: a response to a text that two rules match, the first of
\* them with several parameters.
C2_Witness ==
  \E r \in Requests :
    /\ Done(r) /\ NonEmptyAfterTrim(r)
    /\ Cardinality(MatchingRules(Trimmed(q[r].val))) >= 2
    /\ Len(PATTERNS[FirstRule(Trimmed(q[r].val))].arg_keys) >= 2
    /\ outcome[r].status = 200

\* C3 as stated: an absent, empty or whitespace-only q ends with 400
\* "Missing query parameter q", and with nothing else.
C3_BlankIsEmptyInput ==
  \A r \in Requests :
    (Done(r) /\ (~q[r].present \/ IsBlank(q[r].val))) =>
      outcome[r] = HTTPException(400, MissingDetail)

\* C4: the fallback answers (get_ticket_status with ticket_id) only when
\* none of the five rules matches the trimmed text and the text contains
\* "ticket", whitespace and digits, in any case; otherwise it is silent.
C4_FallbackOnlyWhen ==
  \A r \in Requests :
    (fallback_ticket[r].ok \/ (Done(r) /\ p[r] > Len(PATTERNS) /\ outcome[r].status = 200)) =>
      /\ MatchingRules(Trimmed(q[r].val)) = {}
      /\ HasTicketDigits(Trimmed(q[r].val))
      /\ outcome[r].status = 200 =>
           /\ outcome[r].name = "get_ticket_status"
           /\ KeysInOrder(outcome[r].arguments, <<"ticket_id">>)

\* C4 witness: a response produced by the fallback.
C4_Witness ==
  \E r \in Requests :
    Done(r) /\ fallback_ticket[r].ok /\ outcome[r].status = 200

\* C5 as stated: whenever int() fails on a captured digit text, of a rule
\* or of the fallback, the request ends with 400 and "Invalid integer for
\* <parameter_name>" naming the parameter that failed.
C5_IntFailureIs400 ==
  \A r \in Requests :
    Done(r) =>
      /\ (m[r].ok /\ RefusedInts(MatchedRule(r), Groups(text[r], m[r])) # {}) =>
           LET bad == RefusedInts(MatchedRule(r), Groups(text[r], m[r]))
               k   == CHOOSE x \in bad : \A y \in bad : x <= y
           IN  outcome[r] =
                 HTTPException(400, "Invalid integer for " \o MatchedRule(r).arg_keys[k])
      /\ (fallback_ticket[r].ok
            /\ Len(Groups(text[r], fallback_ticket[r])[1]) > MaxStrDigits) =>
           outcome[r] = HTTPException(400, "Invalid integer for ticket_id")

\* C6: a query that is not empty after trimming ends in one outcome, and
\* that outcome is the 400 "Could not map query ..." exactly when none of
\* the five rules matches and the fallback pattern does not match either.
C6_NoRuleMatchedIff ==
  \A r \in Requests :
    /\ Done(r) <=> outcome[r] # Pending
    /\ (Done(r) /\ NonEmptyAfterTrim(r)) =>
         /\ outcome[r].status \in {200, 400, 500}
         /\ outcome[r] = HTTPException(400, NoMapDetail)
              <=> /\ MatchingRules(Trimmed(q[r].val)) = {}
                  /\ ~HasTicketDigits(Trimmed(q[r].val))

\* C6 witness: a non-empty query that ended with "Could not map query".
C6_Witness ==
  \E r \in Requests :
    /\ Done(r) /\ NonEmptyAfterTrim(r)
    /\ outcome[r] = HTTPException(400, NoMapDetail)

\* C7: every rule has as many parameter names as parameter kinds and as
\* capture groups, so the group-count check passes for every match and the
\* 500 "Parsing error: group count mismatch" never results.
C7_GroupCounts ==
  /\ \A i \in 1..Len(PATTERNS) :
       /\ Len(PATTERNS[i].arg_keys) = Len(PATTERNS[i].arg_types)
       /\ Len(PATTERNS[i].arg_keys) = NumGroups(PATTERNS[i].pattern)
  /\ \A r \in Requests :
       /\ outcome[r] # HTTPException(500, MismatchDetail)
       /\ m[r].ok => Len(groups[r]) = Len(MatchedRule(r).arg_keys)

\* C7 witness: a match with several groups that passed the count check.
C7_Witness ==
  \E r \in Requests :
    Done(r) /\ m[r].ok /\ Len(groups[r]) >= 2 /\ outcome[r].status = 200

\* C8: under any interleaving of the requests in flight the rule table is
\* unchanged and a finished request has the outcome its query has when it
\* is handled alone.
C8_RequestsIndependent ==
  /\ PATTERNS = PatternTable
  /\ \A r \in Requests : Done(r) => outcome[r] = Execute(PatternTable, q[r])

\* C8 witness: a request answered while another one, with another query,
\* is in the middle of the loop.
C8_Witness ==
  \E r1 \in Requests : \E r2 \in Requests :
    /\ r1 # r2
    /\ q[r1] # q[r2]
    /\ Done(r1) /\ outcome[r1].status = 200
    /\ pc[r2] = "loop" /\ p[r2] > 1

DepartmentFollows(s, pos) ==
  \E e \in AfterSpacesAndWord(s, pos, "department") : WordBoundary(s, e)

\* C10: the value of a string parameter is its captured text without the
\* whitespace around it and otherwise unchanged; meeting_room is all that
\* follows "in" up to the end of the trimmed query, and department is the
\* shortest text that whitespace and the word "department" follow.
C10_StringValue ==
  \A r \in Requests :
    (Done(r) /\ outcome[r].status = 200 /\ m[r].ok) =>
      LET s == Trimmed(q[r].val) IN
      /\ \A k \in 1..Len(groups[r]) :
           MatchedRule(r).arg_types[k] = "str" =>
             /\ ordered[r][k].key = MatchedRule(r).arg_keys[k]
             /\ groups[r][k] = SubSeq(s, m[r].spans[k][1], m[r].spans[k][2] - 1)
             /\ StrippedOf(ordered[r][k].val, groups[r][k])
      /\ MatchedRule(r).name = "schedule_meeting" =>
           \E e \in AfterSpacesAndWord(s, m[r].spans[2][2], "in") :
             /\ e <= Len(s)
             /\ ordered[r][3].val = Trimmed(SubSeq(s, e, Len(s)))
             /\ m[r].spans[3][2] = Len(s) + 1
      /\ MatchedRule(r).name = "report_office_issue" =>
           /\ DepartmentFollows(s, m[r].spans[2][2])
           /\ \A b \in (m[r].spans[2][1] + 1)..(m[r].spans[2][2] - 1) :
                ~DepartmentFollows(s, b)

\* C10 witness: a department whose capture had whitespace to remove.
C10_Witness ==
  \E r \in Requests :
    /\ Done(r) /\ outcome[r].status = 200 /\ m[r].ok
    /\ MatchedRule(r).name = "report_office_issue"
    /\ groups[r][2] # ordered[r][2].val

====
